---- MODULE Spec2Model ----
(***************************************************************************)
(* A model of the macimg operation pipeline: Filter, Transform and         *)
(* Composition objects applied to Image objects.                           *)
(*                                                                         *)
(* Numbers.  Python computes the geometry in floating point.  A length is  *)
(* modelled as an exact rational <<n, d>> in lowest terms (d > 0).  The    *)
(* one place where the rounding of doubles is visible in a result that a   *)
(* caller compares, the canvas size of Rotate, is modelled with the        *)
(* rounding: the size is a rational plus a number of units in the last     *)
(* place (fields uw, uh of an image).                                      *)
(*                                                                         *)
(* The absent value None is the empty tuple <<>>.                          *)
(***************************************************************************)
EXTENDS Integers, Sequences, FiniteSets, TLC

None == <<>>

----------------------------------------------------------------------------
(* Rational arithmetic                                                     *)

Abs(x) == IF x < 0 THEN -x ELSE x

RECURSIVE Gcd(_, _)
Gcd(a, b) == IF b = 0 THEN a ELSE Gcd(b, a % b)

Norm(n, d) ==
    LET g == Gcd(Abs(n), Abs(d))
        s == IF d < 0 THEN -1 ELSE 1
    IN  <<(s * n) \div g, (s * d) \div g>>

R(n) == <<n, 1>>
RAdd(x, y) == Norm(x[1] * y[2] + y[1] * x[2], x[2] * y[2])
RSub(x, y) == Norm(x[1] * y[2] - y[1] * x[2], x[2] * y[2])
RMul(x, y) == Norm(x[1] * y[1], x[2] * y[2])
RDiv(x, y) == Norm(x[1] * y[2], x[2] * y[1])
RNeg(x) == <<-x[1], x[2]>>
RLe(x, y) == x[1] * y[2] <= y[1] * x[2]
RMin(x, y) == IF RLe(x, y) THEN x ELSE y
RMax(x, y) == IF RLe(x, y) THEN y ELSE x
IsInt(x) == x[2] = 1

----------------------------------------------------------------------------
(* Rectangles <<x, y, w, h>> and affine maps <<a, b, c, d, tx, ty>>:       *)
(*   x' = a*x + c*y + tx,   y' = b*x + d*y + ty                            *)

MakeRect(x, y, w, h) == <<x, y, w, h>>

Identity == <<R(1), R(0), R(0), R(1), R(0), R(0)>>
TranslateM(tx, ty) == <<R(1), R(0), R(0), R(1), tx, ty>>
ScaleM(sx, sy) == <<sx, R(0), R(0), sy, R(0), R(0)>>

\* Rotation by a multiple of 90 degrees, counter-clockwise.
RotateM(deg) ==
    LET q == (deg \div 90) % 4
        co == CASE q = 0 -> 1 [] q = 1 -> 0 [] q = 2 -> -1 [] OTHER -> 0
        si == CASE q = 0 -> 0 [] q = 1 -> 1 [] q = 2 -> 0 [] OTHER -> -1
    IN  <<R(co), R(si), R(-si), R(co), R(0), R(0)>>

\* Compose(A, B) maps a point by B first, then by A.
Compose(A, B) ==
    << RAdd(RMul(A[1], B[1]), RMul(A[3], B[2])),
       RAdd(RMul(A[2], B[1]), RMul(A[4], B[2])),
       RAdd(RMul(A[1], B[3]), RMul(A[3], B[4])),
       RAdd(RMul(A[2], B[3]), RMul(A[4], B[4])),
       RAdd(RAdd(RMul(A[1], B[5]), RMul(A[3], B[6])), A[5]),
       RAdd(RAdd(RMul(A[2], B[5]), RMul(A[4], B[6])), A[6]) >>

\* The map taking the unit square onto a rectangle.
RectMap(r) == Compose(TranslateM(r[1], r[2]), ScaleM(r[3], r[4]))

\* NSAffineTransform: each operation is applied to the coordinate system, so
\* the operation added last acts on a point first.
translateXBy_yBy_(t, x, y) == Compose(t, TranslateM(x, y))
scaleXBy_yBy_(t, x, y) == Compose(t, ScaleM(x, y))
rotateByDegrees_(t, deg) == Compose(t, RotateM(deg))

\* A linear part that moves pixels without resampling them.
IsPixelExact(m) ==
    /\ \A k \in 1..4 : m[k] \in {R(-1), R(0), R(1)}
    /\ IsInt(m[5]) /\ IsInt(m[6])

ApplyX(m, x, y) == RAdd(RAdd(RMul(m[1], x), RMul(m[3], y)), m[5])
ApplyY(m, x, y) == RAdd(RAdd(RMul(m[2], x), RMul(m[4], y)), m[6])

\* The unit square mapped by m lies within the canvas (0, 0, w, h).
WithinCanvas(m, w, h) ==
    \A p \in {<<0, 0>>, <<1, 0>>, <<0, 1>>, <<1, 1>>} :
        LET x == ApplyX(m, R(p[1]), R(p[2]))
            y == ApplyY(m, R(p[1]), R(p[2]))
        IN  RLe(R(0), x) /\ RLe(x, w) /\ RLe(R(0), y) /\ RLe(y, h)

----------------------------------------------------------------------------
(* Bounds of the model                                                     *)

NumImages == 2
MaxCalls == 2

\* Sizes of the images the caller starts with: image i has the i-th of
\* these sizes (taken cyclically).
Sizes == << <<100, 60>>, <<50, 60>>, <<100, 50>> >>
\* Python's None where a path string is expected.
NoFile == ""
\* The file each image was loaded from (taken cyclically like Sizes); an
\* image without one was built from text, data or a backend handle.
Files == << "a.tiff", NoFile, "c.tiff" >>
\* Paths on the disk: the source files and one other path.
Paths == {"a.tiff", "c.tiff", "out.tiff"}
\* Margin by which the backend's filter output exceeds the input extent.
Overscans == {0, 10}
\* Explicit center arguments given to a center-parameterized filter.
Centers == {<<10, 10>>}

ImageIds == 1..NumImages

----------------------------------------------------------------------------
(* State                                                                   *)

VARIABLES
    images,     \* the caller's Image objects: size, NSImage handle, modified, content
    inst,       \* the operation object (Filter, Transform or Composition) in use
    lastCall,   \* what the most recent apply_to / compose call did
    prevCall,   \* the call before it, when that was a transform
    nextId,     \* next fresh NSImage handle
    gens,       \* number of operation objects constructed so far
    calls,      \* number of apply_to / compose calls made so far
    locked,     \* canvases holding the drawing focus (lockFocus without unlockFocus)
    disk,       \* the file system: what each path holds
    color       \* the caller's Color object and the hex_value last read from it

vars == <<images, inst, lastCall, prevCall, nextId, gens, calls, locked, disk, color>>

\* Image.size (core.py): the size of the NSImage handle.
size(img) == <<img.w, img.h>>

\* The size is an exactly modelled value (no rounding excess).
Exact(img) == img.uw = 0 /\ img.uh = 0

\* The content of an image that shows picture pic over its whole canvas.
FullContent(pic, w, h) == [pic |-> pic, m |-> ScaleM(w, h), lossy |-> FALSE]

\* The adjustment values an Image records (__gamma and the like).
Adjustments ==
    {"gamma", "vibrance", "tint", "temperature", "white_point", "highlight",
     "shadow"}
\* Python's None as a recorded adjustment value.
Unset == "None"

\* Image(nsimage): wraps an NSImage handle; modified starts False, file is
\* None and so is every recorded adjustment value.
Image(handle, w, h, content) ==
    [w |-> w, h |-> h, uw |-> 0, uh |-> 0, handle |-> handle,
     modified |-> FALSE, content |-> content, file |-> NoFile,
     adjust |-> [a \in Adjustments |-> Unset]]

\* Image(path), path an existing file: the handle holds the file's picture
\* and file is the path string.
ImageFromFile(path, handle, w, h) ==
    [Image(handle, w, h, FullContent(handle, w, h)) EXCEPT !.file = path]

\* Image.data: the TIFF representation of the current handle.
data(img) == [w |-> img.w, h |-> img.h, content |-> img.content]

\* A path that holds no file.
NoData == [w |-> R(0), h |-> R(0), content |-> FullContent(0, R(0), R(0))]

\* The image has no pixels.
IsEmpty(img) == img.w = R(0) \/ img.h = R(0)

NoCall == [op |-> "none", status |-> "none"]
NoInst == [family |-> "none", gen |-> 0, applied |-> 1]

\* The caller constructs an operation object when it has none or has used
\* the one it holds (an object that is dropped unused leaves no trace).
CanConstruct == inst.applied > 0 /\ calls < MaxCalls

\* What the caller holds after a constructor raised.
FailedInst(error) ==
    [family |-> "failed", gen |-> 0, applied |-> 1, error |-> error,
     unavailable |-> FALSE]

\* Channel values the caller constructs a Color from, all in [0, 1].
Channels == {R(0), <<1, 20>>, <<1, 4>>, <<1, 2>>, R(1)}

\* The hex_value of a color that has not been read.
NotRead == <<"unread">>

\* Color(red, green, blue): the channels kept by the NSColor.
NewColor(red, green, blue) ==
    [red_value |-> red, green_value |-> green, blue_value |-> blue,
     hex |-> NotRead]

Init ==
    /\ images = [i \in ImageIds |->
                    LET sz == Sizes[((i - 1) % Len(Sizes)) + 1]
                        f == Files[((i - 1) % Len(Files)) + 1]
                    IN  IF f = NoFile
                        THEN Image(i, R(sz[1]), R(sz[2]),
                                   FullContent(i, R(sz[1]), R(sz[2])))
                        ELSE ImageFromFile(f, i, R(sz[1]), R(sz[2]))]
    /\ disk = [p \in Paths |->
                 IF \E i \in ImageIds : images[i].file = p
                 THEN data(images[CHOOSE i \in ImageIds : images[i].file = p])
                 ELSE NoData]
    /\ color = NewColor(R(1), R(1), R(1))
    /\ inst = NoInst
    /\ lastCall = NoCall
    /\ prevCall = NoCall
    /\ nextId = NumImages + 1
    /\ gens = 0
    /\ calls = 0
    /\ locked = 0

----------------------------------------------------------------------------
(* Filters (filters.py, distortions.py)                                    *)

\* How each concrete filter class behaves in apply_to:
\*   "plain"       sets scalar parameters (or none) and calls Filter.apply_to
\*   "center"      resolves self.center, then calls Filter.apply_to
\*   "dof"         DepthOfField: resolves self.focal_region first
\*   "autoenhance" AutoEnhance: its own apply_to
\*   "convolution" Convolution: the constructor raises NameError
CenterClasses ==
    {"Bump", "CircleSplash", "CircularWrap", "Hole", "LightTunnel",
     "LinearBump", "Pinch", "TorusLens", "Twirl", "Vortex",
     "HexagonalPixellate", "ZoomBlur"}

PlainClasses ==
    {"Bloom", "BokehBlur", "BoxBlur", "Chrome", "Comic", "Crystallize",
     "DiscBlur", "Edges", "EdgeWork", "Fade", "GaussianBlur", "Gloom",
     "Instant", "Invert", "LineOverlay", "Median", "Mono", "Monochrome",
     "MotionBlur", "Noir", "NoiseReduction", "Outline", "Pixellate",
     "Pointillize", "Process", "Sepia", "Thermal", "Tonal", "Transfer",
     "Vignette", "XRay"}

FilterClasses ==
    PlainClasses \cup CenterClasses \cup {"AutoEnhance", "DepthOfField", "Convolution"}

FilterKindOf(cls) ==
    CASE cls \in CenterClasses -> "center"
      [] cls = "AutoEnhance" -> "autoenhance"
      [] cls = "DepthOfField" -> "dof"
      [] cls = "Convolution" -> "convolution"
      [] OTHER -> "plain"

\* The name each class passes to Filter.__init__ (AutoEnhance passes none).
BackendName(cls) ==
    CASE cls = "AutoEnhance" -> ""
      [] cls = "Bloom" -> "CIBloom"
      [] cls = "BokehBlur" -> "CIBokehBlur"
      [] cls = "BoxBlur" -> "CIBoxBlur"
      [] cls = "Chrome" -> "CIPhotoEffectChrome"
      [] cls = "Comic" -> "CIComicEffect"
      [] cls = "Convolution" -> "CIBloom"
      [] cls = "Crystallize" -> "CICrystallize"
      [] cls = "DepthOfField" -> "CIDepthOfField"
      [] cls = "DiscBlur" -> "CIBoxBlur"
      [] cls = "Edges" -> "CIEdges"
      [] cls = "EdgeWork" -> "CIEdgeWork"
      [] cls = "Fade" -> "CIPhotoEffectFade"
      [] cls = "GaussianBlur" -> "CIGaussianBlur"
      [] cls = "Gloom" -> "CIGloom"
      [] cls = "HexagonalPixellate" -> "CIHexagonalPixellate"
      [] cls = "Instant" -> "CIPhotoEffectInstant"
      [] cls = "Invert" -> "CIColorInvert"
      [] cls = "LineOverlay" -> "CILineOverlay"
      [] cls = "Median" -> "CIMedianFilter"
      [] cls = "Mono" -> "CIPhotoEffectMono"
      [] cls = "Monochrome" -> "CIColorMonochrome"
      [] cls = "MotionBlur" -> "CIMotionBlur"
      [] cls = "Noir" -> "CIPhotoEffectNoir"
      [] cls = "NoiseReduction" -> "CINoiseReduction"
      [] cls = "Outline" -> "CILineOverlay"
      [] cls = "Pixellate" -> "CIPixellate"
      [] cls = "Pointillize" -> "CIPointillize"
      [] cls = "Process" -> "CIPhotoEffectProcess"
      [] cls = "Sepia" -> "CISepiaTone"
      [] cls = "Thermal" -> "CIThermal"
      [] cls = "Tonal" -> "CIPhotoEffectTonal"
      [] cls = "Transfer" -> "CIPhotoEffectTransfer"
      [] cls = "Vignette" -> "CIVignette"
      [] cls = "ZoomBlur" -> "CIMotionBlur"
      [] cls = "XRay" -> "CIXRay"
      [] cls = "Bump" -> "CIBumpDistortion"
      [] cls = "CircleSplash" -> "CICircleSplashDistortion"
      [] cls = "CircularWrap" -> "CICircularWrap"
      [] cls = "Hole" -> "CIHoleDistortion"
      [] cls = "LightTunnel" -> "CILightTunnel"
      [] cls = "LinearBump" -> "CIBumpDistortionLinear"
      [] cls = "Pinch" -> "CIPinchDistortion"
      [] cls = "TorusLens" -> "CITorusLensDistortion"
      [] cls = "Twirl" -> "CITwirlDistortion"
      [] cls = "Vortex" -> "CIVortexDistortion"

\* The parameters of each class's constructor.
ConstructorParams(cls) ==
    CASE cls = "AutoEnhance" -> {"correct_red_eye", "crop_to_features", "correct_rotation"}
      [] cls = "Bloom" -> {"intensity"}
      [] cls = "BokehBlur" -> {"radius", "ring_amount", "ring_size", "softness"}
      [] cls = "BoxBlur" -> {"radius"}
      [] cls = "Convolution" -> {"matrix_dimensions"}
      [] cls = "Crystallize" -> {"crystal_size"}
      [] cls = "DepthOfField" -> {"focal_region", "intensity", "focal_region_saturation"}
      [] cls = "DiscBlur" -> {"radius"}
      [] cls = "Edges" -> {"intensity"}
      [] cls = "EdgeWork" -> {"radius"}
      [] cls = "GaussianBlur" -> {"intensity"}
      [] cls = "Gloom" -> {"intensity", "radius"}
      [] cls = "HexagonalPixellate" -> {"pixel_size", "center"}
      [] cls = "LineOverlay" -> {"noise_level", "sharpness", "edge_intensity", "threshold", "contrast"}
      [] cls = "Monochrome" -> {"color", "intensity"}
      [] cls = "MotionBlur" -> {"radius", "angle"}
      [] cls = "NoiseReduction" -> {"noise_level", "sharpness"}
      [] cls = "Outline" -> {"threshold"}
      [] cls = "Pixellate" -> {"pixel_size"}
      [] cls = "Pointillize" -> {"point_size"}
      [] cls = "Sepia" -> {"intensity"}
      [] cls = "Vignette" -> {"intensity"}
      [] cls = "ZoomBlur" -> {"amount", "center"}
      [] cls = "Bump" -> {"center", "radius", "curvature"}
      [] cls = "CircleSplash" -> {"center", "radius"}
      [] cls = "CircularWrap" -> {"center", "radius", "angle"}
      [] cls = "Hole" -> {"center", "radius"}
      [] cls = "LightTunnel" -> {"center", "radius", "rotation"}
      [] cls = "LinearBump" -> {"center", "radius", "angle", "scale"}
      [] cls = "Pinch" -> {"center", "intensity"}
      [] cls = "TorusLens" -> {"center", "radius", "width", "refraction"}
      [] cls = "Twirl" -> {"center", "radius", "angle"}
      [] cls = "Vortex" -> {"center", "radius", "angle"}
      [] OTHER -> {}

\* The constructor parameters that apply_to reads from the instance and
\* passes on to the backend.
ForwardedParams(cls) ==
    CASE cls = "AutoEnhance" -> {"correct_red_eye", "crop_to_features", "correct_rotation"}
      [] cls = "Bloom" -> {"intensity"}
      [] cls = "BokehBlur" -> {"radius", "ring_amount", "ring_size", "softness"}
      [] cls = "BoxBlur" -> {"radius"}
      [] cls = "Crystallize" -> {"crystal_size"}
      [] cls = "DepthOfField" -> {"focal_region", "intensity", "focal_region_saturation"}
      [] cls = "DiscBlur" -> {"radius"}
      [] cls = "Edges" -> {"intensity"}
      [] cls = "EdgeWork" -> {"radius"}
      [] cls = "GaussianBlur" -> {"intensity"}
      [] cls = "Gloom" -> {"intensity", "radius"}
      [] cls = "HexagonalPixellate" -> {"pixel_size", "center"}
      [] cls = "LineOverlay" -> {"noise_level", "threshold"}
      [] cls = "Monochrome" -> {"color", "intensity"}
      [] cls = "MotionBlur" -> {"radius", "angle"}
      [] cls = "NoiseReduction" -> {"noise_level", "sharpness"}
      [] cls = "Outline" -> {"threshold"}
      [] cls = "Pixellate" -> {"pixel_size"}
      [] cls = "Pointillize" -> {"point_size"}
      [] cls = "Sepia" -> {"intensity"}
      [] cls = "Vignette" -> {"intensity"}
      [] cls = "ZoomBlur" -> {"amount", "center"}
      [] cls = "Bump" -> {"center", "radius", "curvature"}
      [] cls = "CircleSplash" -> {"center", "radius"}
      [] cls = "CircularWrap" -> {"center", "radius", "angle"}
      [] cls = "Hole" -> {"center", "radius"}
      [] cls = "LightTunnel" -> {"center", "radius", "rotation"}
      [] cls = "LinearBump" -> {"center", "radius", "angle", "scale"}
      [] cls = "Pinch" -> {"center", "intensity"}
      [] cls = "TorusLens" -> {"center", "radius", "width", "refraction"}
      [] cls = "Twirl" -> {"center", "radius", "angle"}
      [] cls = "Vortex" -> {"center", "radius", "angle"}
      [] OTHER -> {}

\* Filter.__init__ when the backend has no filter of the name:
\* filterWithName_ returns None and None.setDefaults() raises
\* AttributeError.
UnavailableInst ==
    [family |-> "failed", gen |-> 0, applied |-> 1, error |-> "AttributeError",
     unavailable |-> TRUE]

\* Filter.__init__: _size and _bounds start as None.  The subclass stores its
\* parameters; center is None or the tuple given.  initCenter remembers the
\* constructor argument.
NewFilter(cls, center) ==
    /\ CanConstruct
    /\ IF FilterKindOf(cls) = "convolution"
       THEN /\ inst' = FailedInst("NameError")
            /\ UNCHANGED gens
       ELSE /\ gens' = gens + 1
            /\ inst' = [family |-> "filter", kind |-> FilterKindOf(cls),
                        cls |-> cls, backend |-> BackendName(cls),
                        gen |-> gens + 1, applied |-> 0,
                        initCenter |-> center, center |-> center,
                        bounds |-> None]
    /\ UNCHANGED <<images, lastCall, prevCall, nextId, calls, locked, disk, color>>

NoCenter == [tag |-> "none"]
TupleCenter(c) == [tag |-> "tuple", x |-> R(c[1]), y |-> R(c[2])]
CIVector(x, y) == [tag |-> "vector", x |-> x, y |-> y]

\* The caller constructs a filter; the backend has a filter of the name
\* the class asks for, or has none.
ConstructFilter ==
    \E cls \in FilterClasses, available \in BOOLEAN :
        \E c \in {NoCenter} \cup {TupleCenter(p) : p \in Centers} :
            /\ (FilterKindOf(cls) \notin {"center", "dof"} => c = NoCenter)
            /\ (BackendName(cls) = "" => available)
            /\ IF available
               THEN NewFilter(cls, c)
               ELSE /\ CanConstruct
                    /\ inst' = UnavailableInst
                    /\ UNCHANGED <<gens, images, lastCall, prevCall, nextId,
                                   calls, locked, disk, color>>

\* CIImage.imageByCroppingToRect_: the intersection of the extent and the rect.
imageByCroppingToRect_(extent, rect) ==
    LET x0 == RMax(extent[1], rect[1])
        y0 == RMax(extent[2], rect[2])
        x1 == RMin(RAdd(extent[1], extent[3]), RAdd(rect[1], rect[3]))
        y1 == RMin(RAdd(extent[2], extent[4]), RAdd(rect[2], rect[4]))
    IN  MakeRect(x0, y0, RSub(x1, x0), RSub(y1, y0))

\* The extent of the backend's output for an input of size (w, h): the input
\* extent grown by the overscan o on every side.
BackendExtent(w, h, o) ==
    MakeRect(R(-o), R(-o), RAdd(w, R(2 * o)), RAdd(h, R(2 * o)))

\* The rectangle Filter.apply_to crops the backend result to.
FilterBounds(f, img) ==
    IF f.bounds = None THEN MakeRect(R(0), R(0), img.w, img.h) ELSE f.bounds

\* Filter.apply_to on images[i], the instance already carrying the resolved
\* parameters f; center is the inputCenter set on the backend filter (None
\* when the class has none).
\* An image without pixels has no TIFF data: the backend then either gives
\* no output image, and the crop of None raises AttributeError after _bounds
\* was stored, or gives one, and the call goes on as for any image.
FilterApplyBase(i, f, center, o) ==
    LET img == images[i]
        bounds == FilterBounds(f, img)
        cropped == imageByCroppingToRect_(BackendExtent(img.w, img.h, o), bounds)
        result == Image(nextId, cropped[3], cropped[4],
                        FullContent(nextId, cropped[3], cropped[4]))
        call == [op |-> "filter", kind |-> f.kind, gen |-> f.gen,
                 fresh |-> (f.applied = 0), img |-> i, pre |-> img,
                 initCenter |-> f.initCenter]
    IN  /\ inst' = [f EXCEPT !.bounds = bounds, !.applied = @ + 1]
        /\ \E output \in BOOLEAN :
              /\ (~IsEmpty(img) => output)
              /\ IF output
                 THEN /\ images' = [images EXCEPT ![i] =
                            [result EXCEPT !.modified = TRUE, !.file = img.file,
                                         !.adjust = img.adjust]]
                      /\ nextId' = nextId + 1
                      /\ lastCall' = call @@
                            [status |-> "ok", ret |-> "same",
                             retSize |-> <<cropped[3], cropped[4]>>,
                             center |-> center, crop |-> bounds]
                 ELSE /\ lastCall' = call @@
                            [status |-> "AttributeError", ret |-> "none",
                             retSize |-> size(img),
                             center |-> center, crop |-> None]
                      /\ UNCHANGED <<images, nextId>>
        /\ UNCHANGED locked

\* An apply_to call that raises before it changes the image.
FilterRaises(i, f, error) ==
    /\ inst' = [f EXCEPT !.applied = @ + 1]
    /\ lastCall' = [op |-> "filter", kind |-> f.kind, gen |-> f.gen,
                    fresh |-> (f.applied = 0), img |-> i, pre |-> images[i],
                    status |-> error, ret |-> "none",
                    retSize |-> size(images[i]),
                    center |-> NoCenter, crop |-> None,
                    initCenter |-> f.initCenter]
    /\ UNCHANGED <<images, nextId, locked>>

\* A filter is applied to any image of the caller.
FilterGuard(i) ==
    /\ calls < MaxCalls
    /\ Exact(images[i])

\* The other operations are applied to images that have pixels.
CallGuard(i) ==
    /\ FilterGuard(i)
    /\ ~IsEmpty(images[i])

\* What every call leaves behind besides its own effects.
CallHistory ==
    /\ calls' = calls + 1
    /\ prevCall' = IF lastCall.op = "transform" THEN lastCall ELSE NoCall
    /\ UNCHANGED gens

CallFrame ==
    /\ CallHistory
    /\ UNCHANGED <<disk, color>>

\* Image(None): a new NSImage without representations, of size (0, 0).  The
\* caller replaces one of its images by such an image, so that no call has
\* been made on the images it now holds.
NewEmptyImage ==
    \E i \in ImageIds :
        /\ calls < MaxCalls
        /\ ~IsEmpty(images[i])
        /\ \A j \in ImageIds : ~IsEmpty(images[j])
        /\ images' = [images EXCEPT ![i] =
                          Image(nextId, R(0), R(0), FullContent(0, R(0), R(0)))]
        /\ nextId' = nextId + 1
        /\ lastCall' = NoCall
        /\ prevCall' = NoCall
        /\ UNCHANGED <<inst, gens, calls, locked, disk, color>>

\* A filter without a center parameter: Bloom.apply_to and the like.
PlainFilterApply ==
    \E i \in ImageIds, o \in Overscans :
        /\ inst.family = "filter" /\ inst.kind = "plain"
        /\ FilterGuard(i)
        /\ FilterApplyBase(i, inst, NoCenter, o)
        /\ CallFrame

\* Bump.apply_to and the other center-parameterized filters: self.center is
\* overwritten with the resolved CIVector.  Once it holds a CIVector, the
\* else branch subscripts that CIVector: the binding either rejects the
\* subscript (TypeError) or yields the stored coordinates.
CenterFilterApply ==
    \E i \in ImageIds, o \in Overscans, subscriptable \in BOOLEAN :
        /\ inst.family = "filter" /\ inst.kind = "center"
        /\ FilterGuard(i)
        /\ (inst.center.tag # "vector" => subscriptable)
        /\ LET img == images[i]
               c == inst.center
               resolved ==
                   IF c.tag = "none"
                   THEN CIVector(RDiv(img.w, R(2)), RDiv(img.h, R(2)))
                   ELSE CIVector(c.x, c.y)
           IN  IF subscriptable
               THEN FilterApplyBase(i, [inst EXCEPT !.center = resolved], resolved, o)
               ELSE FilterRaises(i, inst, "TypeError")
        /\ CallFrame

\* DepthOfField.apply_to: with focal_region None the two points are computed
\* and stored as a tuple; a tuple (given, or stored by an earlier call) goes
\* to vectorWithX_Y_ with one argument, which raises TypeError.
DepthOfFieldApply ==
    \E i \in ImageIds, o \in Overscans :
        /\ inst.family = "filter" /\ inst.kind = "dof"
        /\ FilterGuard(i)
        /\ IF inst.center.tag = "none"
           THEN FilterApplyBase(i, [inst EXCEPT !.center = [tag |-> "region"]],
                                NoCenter, o)
           ELSE FilterRaises(i, inst, "TypeError")
        /\ CallFrame

\* AutoEnhance.apply_to: crops to twice the image size, wraps the result in
\* a new Image and returns that; the image passed in is left as it was.
\* For an image without pixels the backend gives a CIImage or None, and a
\* method call on None raises AttributeError.
AutoEnhanceApply ==
    \E i \in ImageIds, o \in Overscans, output \in BOOLEAN :
        /\ inst.family = "filter" /\ inst.kind = "autoenhance"
        /\ FilterGuard(i)
        /\ (~IsEmpty(images[i]) => output)
        /\ LET img == images[i]
               rect == MakeRect(R(0), R(0), RMul(img.w, R(2)), RMul(img.h, R(2)))
               cropped == imageByCroppingToRect_(BackendExtent(img.w, img.h, o), rect)
               call == [op |-> "filter", kind |-> inst.kind, gen |-> inst.gen,
                        fresh |-> (inst.applied = 0), img |-> i, pre |-> img,
                        center |-> NoCenter, initCenter |-> inst.initCenter]
           IN  /\ IF output
                  THEN /\ lastCall' = call @@
                             [status |-> "ok", ret |-> "new",
                              retSize |-> <<cropped[3], cropped[4]>>,
                              crop |-> rect]
                       /\ nextId' = nextId + 1
                  ELSE /\ lastCall' = call @@
                             [status |-> "AttributeError", ret |-> "none",
                              retSize |-> size(img), crop |-> None]
                       /\ UNCHANGED nextId
               /\ inst' = [inst EXCEPT !.applied = @ + 1]
               /\ UNCHANGED <<images, locked>>
        /\ CallFrame

----------------------------------------------------------------------------
(* Transforms (transforms.py)                                              *)

\* Constructor arguments the caller uses.
CropSizes == {<<20, 30>>}
CropCorners == {<<0, 0>>, <<5, 5>>}
Directions == {"horizontal", "vertical"}
Degrees == {0, 90, 180, 270}
ScaleFactorsX == {2}
ScaleFactorsY == {None, <<3, 1>>}
ResizeWidths == {200}
ResizeHeights == {None, <<80, 1>>}

\* Transform.__init__: _transform, _size and _bounds start as None.
Transform(kind, params) ==
    [family |-> "transform", kind |-> kind, gen |-> gens + 1, applied |-> 0,
     transform |-> None, size_ |-> None, bounds |-> None, params |-> params]

NewTransform(t) ==
    /\ CanConstruct
    /\ gens' = gens + 1
    /\ inst' = t
    /\ UNCHANGED <<images, lastCall, prevCall, nextId, calls, locked, disk, color>>

\* Crop.__init__
NewCrop ==
    \E sz \in CropSizes, c \in CropCorners :
        NewTransform(Transform("Crop", [size |-> sz, corner |-> c]))

\* Flip.__init__
NewFlip ==
    \E d \in Directions :
        NewTransform(Transform("Flip", [direction |-> d]))

\* Rotate.__init__
NewRotate ==
    \E d \in Degrees :
        NewTransform(Transform("Rotate", [degrees |-> d]))

\* Scale.__init__: scale_factor_y or scale_factor_x
NewScale ==
    \E fx \in ScaleFactorsX, fy \in ScaleFactorsY :
        NewTransform(Transform("Scale",
            [scale_factor_x |-> R(fx),
             scale_factor_y |-> IF fy = None THEN R(fx) ELSE fy]))

\* Resize.__init__: initHeight remembers the constructor argument.
NewResize ==
    \E w \in ResizeWidths, h \in ResizeHeights :
        NewTransform(Transform("Resize",
            [width |-> R(w), height |-> h, initHeight |-> h]))

\* Transform.apply_to on images[i], the instance t already carrying what the
\* subclass stored in _size, _bounds and _transform; (uw, uh) is the rounding
\* excess of the canvas size in units in the last place.
\* The source is drawn whole (fromRect is the zero rect) into the rectangle
\* _bounds of the coordinate system set up by _transform.
TransformApplyBase(i, t, uw, uh) ==
    LET img == images[i]
        canvas == IF t.size_ = None THEN size(img) ELSE t.size_
        bounds == IF t.bounds = None
                  THEN MakeRect(R(0), R(0), img.w, img.h) ELSE t.bounds
        t2 == [t EXCEPT !.bounds = bounds, !.applied = @ + 1]
        call == [op |-> "transform", kind |-> t.kind, gen |-> t.gen,
                 fresh |-> (t.applied = 0), img |-> i, pre |-> img,
                 params |-> t.params, initParams |-> inst.params,
                 outSize |-> canvas, outUlps |-> <<uw, uh>>,
                 dest |-> bounds, xform |-> t.transform]
    IN  /\ inst' = t2
        /\ IF t.transform = None
           THEN \* None has no attribute concat: raised between lockFocus
                \* and unlockFocus
                /\ lastCall' = call @@ [status |-> "AttributeError", ret |-> "none"]
                /\ locked' = locked + 1
                /\ UNCHANGED <<images, nextId>>
           ELSE LET draw == Compose(t.transform,
                              Compose(RectMap(bounds),
                                      ScaleM(RDiv(R(1), img.w), RDiv(R(1), img.h))))
                    m == Compose(draw, img.content.m)
                    content == [pic |-> img.content.pic, m |-> m,
                                lossy |-> \/ img.content.lossy
                                          \/ ~IsPixelExact(draw)
                                          \/ ~WithinCanvas(m, canvas[1], canvas[2])]
                IN  /\ images' = [images EXCEPT ![i] =
                          [w |-> canvas[1], h |-> canvas[2], uw |-> uw, uh |-> uh,
                           handle |-> nextId, modified |-> TRUE, content |-> content,
                           file |-> img.file, adjust |-> img.adjust]]
                    /\ nextId' = nextId + 1
                    /\ lastCall' = call @@ [status |-> "ok", ret |-> "same"]
                    /\ UNCHANGED locked

IsTransform(kind) == inst.family = "transform" /\ inst.kind = kind

\* Crop.apply_to: sets _size and _bounds, never _transform.
CropApply ==
    \E i \in ImageIds :
        /\ IsTransform("Crop")
        /\ CallGuard(i)
        /\ LET p == inst.params
           IN  TransformApplyBase(i,
                 [inst EXCEPT !.size_ = <<R(p.size[1]), R(p.size[2])>>,
                              !.bounds = MakeRect(R(p.corner[1]), R(p.corner[2]),
                                                  R(p.size[1]), R(p.size[2]))],
                 0, 0)
        /\ CallFrame

\* A Flip that mirrors without translating the content back into the canvas.
FlipTransformMirrorOnly(direction, w, h) ==
    IF direction = "horizontal"
    THEN scaleXBy_yBy_(Identity, R(-1), R(1))
    ELSE scaleXBy_yBy_(Identity, R(1), R(-1))

\* The affine transform Flip.apply_to builds for an image of size (w, h).
FlipTransform(direction, w, h) ==
    IF direction = "horizontal"
    THEN scaleXBy_yBy_(translateXBy_yBy_(Identity, w, R(0)), R(-1), R(1))
    ELSE scaleXBy_yBy_(translateXBy_yBy_(Identity, R(0), h), R(1), R(-1))

\* Flip.apply_to: sets _transform only.
FlipApply ==
    \E i \in ImageIds :
        /\ IsTransform("Flip")
        /\ CallGuard(i)
        /\ TransformApplyBase(i,
             [inst EXCEPT !.transform =
                 FlipTransform(inst.params.direction, images[i].w, images[i].h)],
             0, 0)
        /\ CallFrame

\* Scale.apply_to: sets _size and _transform.
ScaleApply ==
    \E i \in ImageIds :
        /\ IsTransform("Scale")
        /\ CallGuard(i)
        /\ LET p == inst.params
               img == images[i]
           IN  TransformApplyBase(i,
                 [inst EXCEPT !.size_ = <<RMul(img.w, p.scale_factor_x),
                                         RMul(img.h, p.scale_factor_y)>>,
                              !.transform = scaleXBy_yBy_(Identity,
                                               p.scale_factor_x, p.scale_factor_y)],
                 0, 0)
        /\ CallFrame

\* The height Resize.apply_to works with: self.height, computed from the
\* image when it is None.
ResizeHeight(p, img) ==
    IF p.height = None THEN RDiv(RMul(img.h, p.width), img.w) ELSE p.height

\* Resize.apply_to: stores the computed height in self.height, sets _size
\* and _transform.
ResizeApply ==
    \E i \in ImageIds :
        /\ IsTransform("Resize")
        /\ CallGuard(i)
        /\ LET img == images[i]
               height == ResizeHeight(inst.params, img)
               width == inst.params.width
           IN  TransformApplyBase(i,
                 [inst EXCEPT !.params.height = height,
                              !.size_ = <<RDiv(RMul(img.w, width), img.w),
                                         RDiv(RMul(img.h, height), img.h)>>,
                              !.transform = scaleXBy_yBy_(Identity,
                                               RDiv(width, img.w),
                                               RDiv(height, img.h))],
                 0, 0)
        /\ CallFrame

----------------------------------------------------------------------------
(* Rotate: the canvas size is computed in double precision                 *)

\* Largest dimension for which the rounding below was compared with the
\* doubles Python computes.
MaxRotateDim == 350

\* Values below 1 are counted in units of 10^-21.
\* 2^-52, the distance from 1.0 to the next double.
EpsUnits == 222045
\* abs(math.sin(math.pi)) = 1.2246467991473532e-16
SinPiUnits == 122465
\* abs(math.cos(90 * math.pi / 180.0)) = 6.123233995736766e-17
CosHalfPiUnits == 61232
\* abs(math.cos(270 * math.pi / 180.0)) = 1.8369701987210297e-16
CosThreeHalfPiUnits == 183697

\* abs(math.sin(deg * math.pi / 180.0)) as [one, tiny]: one + tiny * 10^-21.
SinAbs(deg) ==
    CASE deg = 0 -> [one |-> 0, tiny |-> 0]
      [] deg = 90 -> [one |-> 1, tiny |-> 0]
      [] deg = 180 -> [one |-> 0, tiny |-> SinPiUnits]
      [] deg = 270 -> [one |-> 1, tiny |-> 0]

\* abs(math.cos(deg * math.pi / 180.0)), likewise.
CosAbs(deg) ==
    CASE deg = 0 -> [one |-> 1, tiny |-> 0]
      [] deg = 90 -> [one |-> 0, tiny |-> CosHalfPiUnits]
      [] deg = 180 -> [one |-> 1, tiny |-> 0]
      [] deg = 270 -> [one |-> 0, tiny |-> CosThreeHalfPiUnits]

RECURSIVE Pow2Floor(_)
Pow2Floor(n) == IF n < 2 THEN 1 ELSE 2 * Pow2Floor(n \div 2)

\* The double a * sin + b * cos for integers a, b, as [base, ulps]: the
\* integer base plus ulps units in the last place of base (round to nearest).
RotateDim(a, sin, b, cos) ==
    LET base == a * sin.one + b * cos.one
        tiny == a * sin.tiny + b * cos.tiny
        ulp == EpsUnits * Pow2Floor(base)
    IN  [base |-> base, ulps |-> (2 * tiny + ulp) \div (2 * ulp)]

\* A Rotate that does not translate back after rotating about the center.
RotateTransformNoRecenter(deg, sw, sh) ==
    rotateByDegrees_(
        translateXBy_yBy_(Identity, RDiv(sw, R(2)), RDiv(sh, R(2))), deg)

\* The affine transform Rotate.apply_to builds for a canvas of size (sw, sh).
RotateTransform(deg, sw, sh) ==
    LET cx == RDiv(sw, R(2))
        cy == RDiv(sh, R(2))
    IN  translateXBy_yBy_(
            rotateByDegrees_(
                translateXBy_yBy_(Identity, cx, cy), deg),
            RNeg(cx), RNeg(cy))

\* The rectangle Rotate.apply_to draws the source into.
RotateBounds(sw, sh, w, h) ==
    MakeRect(RDiv(RSub(sw, w), R(2)), RDiv(RSub(sh, h), R(2)), w, h)

\* Rotate.apply_to: sets _size, _bounds and _transform on every call.
\* With degrees = 0 the sine is 0.0 and the cosine 1.0, and the size is that
\* of the image, whatever it is; otherwise the image has integer dimensions.
RotateApply ==
    \E i \in ImageIds :
        /\ IsTransform("Rotate")
        /\ CallGuard(i)
        /\ LET img == images[i]
               deg == inst.params.degrees
           IN  IF deg = 0
               THEN TransformApplyBase(i,
                      [inst EXCEPT !.size_ = size(img),
                                   !.bounds = RotateBounds(img.w, img.h, img.w, img.h),
                                   !.transform = RotateTransform(deg, img.w, img.h)],
                      0, 0)
               ELSE /\ IsInt(img.w) /\ IsInt(img.h)
                    /\ img.w[1] <= MaxRotateDim /\ img.h[1] <= MaxRotateDim
                    /\ LET sw == RotateDim(img.h[1], SinAbs(deg), img.w[1], CosAbs(deg))
                           sh == RotateDim(img.w[1], SinAbs(deg), img.h[1], CosAbs(deg))
                       IN  TransformApplyBase(i,
                             [inst EXCEPT
                                !.size_ = <<R(sw.base), R(sh.base)>>,
                                !.bounds = RotateBounds(R(sw.base), R(sh.base),
                                                        img.w, img.h),
                                !.transform = RotateTransform(deg, R(sw.base),
                                                              R(sh.base))],
                             sw.ulps, sh.ulps)
        /\ CallFrame

----------------------------------------------------------------------------
(* Compositions (compositions.py)                                          *)

ForceDimensions == {None, <<30, 40>>}
MaxComposed == 2

\* Sequences of at most MaxComposed of the caller's images.
ImageSeqs == UNION {[1..n -> ImageIds] : n \in 0..MaxComposed}

\* HorizontalStitch.__init__: stores force_dimensions; Composition.__init__
\* is not called, so widths, heights and _canvas_size do not exist yet.
NewHorizontalStitch ==
    \E fd \in ForceDimensions :
        /\ CanConstruct
        /\ gens' = gens + 1
        /\ inst' = [family |-> "stitch", kind |-> "HorizontalStitch",
                    gen |-> gens + 1, applied |-> 0,
                    force_dimensions |-> fd,
                    widths |-> None, heights |-> None, canvas_size |-> None]
        /\ UNCHANGED <<images, lastCall, prevCall, nextId, calls, locked, disk, color>>

RECURSIVE sum(_)
sum(s) == IF s = <<>> THEN R(0) ELSE RAdd(Head(s), sum(Tail(s)))

\* max of a non-empty list
RECURSIVE max(_)
max(s) == IF Len(s) = 1 THEN s[1] ELSE RMax(Head(s), max(Tail(s)))

\* A compose that hands back the NSImage of the caller's first image.
CanvasOfFirstImage == images[1].handle

\* Composition.compose: the canvas is a newly allocated NSImage.
NewCanvasHandle == nextId

\* A compose that sizes the canvas by the native widths whatever
\* force_dimensions is.
StitchWidthsNative(fd, imgs) ==
    [k \in 1..Len(imgs) |-> images[imgs[k]].w]

\* HorizontalStitch.compose, first part: the per-image widths and heights.
StitchWidths(fd, imgs) ==
    [k \in 1..Len(imgs) |-> IF fd = None THEN images[imgs[k]].w ELSE R(fd[1])]
StitchHeights(fd, imgs) ==
    [k \in 1..Len(imgs) |-> IF fd = None THEN images[imgs[k]].h ELSE R(fd[2])]

\* A _draw_images that does not advance current_x.
HorizontalRectsNoAdvance(fd, imgs, current_x) ==
    [k \in 1..Len(imgs) |->
        LET img == images[imgs[k]]
        IN  [img |-> imgs[k], handle |-> img.handle,
             rect |-> MakeRect(current_x, R(0),
                               IF fd = None THEN img.w ELSE R(fd[1]),
                               IF fd = None THEN img.h ELSE R(fd[2]))]]

\* HorizontalStitch._draw_images: the rectangle each image is drawn into.
RECURSIVE HorizontalRects(_, _, _)
HorizontalRects(fd, imgs, current_x) ==
    IF imgs = <<>> THEN <<>>
    ELSE LET img == images[Head(imgs)]
             w == IF fd = None THEN img.w ELSE R(fd[1])
             h == IF fd = None THEN img.h ELSE R(fd[2])
         IN  <<[img |-> Head(imgs), handle |-> img.handle,
                rect |-> MakeRect(current_x, R(0), w, h)]>>
             \o HorizontalRects(fd, Tail(imgs), RAdd(current_x, w))

\* HorizontalStitch.compose followed by Composition.compose.
HorizontalCompose ==
    \E imgs \in ImageSeqs :
        /\ inst.family = "stitch" /\ inst.kind = "HorizontalStitch"
        /\ calls < MaxCalls
        /\ \A k \in 1..Len(imgs) : Exact(images[imgs[k]])
        /\ LET fd == inst.force_dimensions
               widths == StitchWidths(fd, imgs)
               heights == StitchHeights(fd, imgs)
               call == [op |-> "compose", kind |-> inst.kind, gen |-> inst.gen,
                        fresh |-> (inst.applied = 0), args |-> imgs,
                        force_dimensions |-> fd,
                        pre |-> [k \in 1..Len(imgs) |-> images[imgs[k]]]]
           IN  IF imgs = <<>>
               THEN \* max() of an empty list raises ValueError
                    /\ inst' = [inst EXCEPT !.widths = widths, !.heights = heights,
                                                !.applied = @ + 1]
                    /\ lastCall' = call @@ [status |-> "ValueError", ret |-> "none",
                                            retSize |-> None, draws |-> <<>>,
                                            handle |-> 0]
                    /\ UNCHANGED nextId
               ELSE LET canvas == <<sum(widths), max(heights)>>
                    IN  /\ inst' = [inst EXCEPT !.widths = widths,
                                                !.heights = heights,
                                                !.canvas_size = canvas,
                                                !.applied = @ + 1]
                        /\ lastCall' = call @@
                              [status |-> "ok", ret |-> "new", retSize |-> canvas,
                               draws |-> HorizontalRects(fd, imgs, R(0)),
                               handle |-> NewCanvasHandle]
                        /\ nextId' = nextId + 1
        /\ UNCHANGED <<images, locked>>
        /\ CallFrame

\* VerticalStitch.__init__: like HorizontalStitch.__init__.
NewVerticalStitch ==
    \E fd \in ForceDimensions :
        /\ CanConstruct
        /\ gens' = gens + 1
        /\ inst' = [family |-> "stitch", kind |-> "VerticalStitch",
                    gen |-> gens + 1, applied |-> 0,
                    force_dimensions |-> fd,
                    widths |-> None, heights |-> None, canvas_size |-> None]
        /\ UNCHANGED <<images, lastCall, prevCall, nextId, calls, locked, disk, color>>

\* A _draw_images that does not advance current_y.
VerticalRectsNoAdvance(fd, imgs, current_y) ==
    [k \in 1..Len(imgs) |->
        LET img == images[imgs[k]]
        IN  [img |-> imgs[k], handle |-> img.handle,
             rect |-> MakeRect(R(0), current_y,
                               IF fd = None THEN img.w ELSE R(fd[1]),
                               IF fd = None THEN img.h ELSE R(fd[2]))]]

\* VerticalStitch._draw_images: the rectangle each image is drawn into.
RECURSIVE VerticalRects(_, _, _)
VerticalRects(fd, imgs, current_y) ==
    IF imgs = <<>> THEN <<>>
    ELSE LET img == images[Head(imgs)]
             w == IF fd = None THEN img.w ELSE R(fd[1])
             h == IF fd = None THEN img.h ELSE R(fd[2])
         IN  <<[img |-> Head(imgs), handle |-> img.handle,
                rect |-> MakeRect(R(0), current_y, w, h)]>>
             \o VerticalRects(fd, Tail(imgs), RAdd(current_y, h))

\* VerticalStitch.compose followed by Composition.compose.
VerticalCompose ==
    \E imgs \in ImageSeqs :
        /\ inst.family = "stitch" /\ inst.kind = "VerticalStitch"
        /\ calls < MaxCalls
        /\ \A k \in 1..Len(imgs) : Exact(images[imgs[k]])
        /\ LET fd == inst.force_dimensions
               widths == StitchWidths(fd, imgs)
               heights == StitchHeights(fd, imgs)
               call == [op |-> "compose", kind |-> inst.kind, gen |-> inst.gen,
                        fresh |-> (inst.applied = 0), args |-> imgs,
                        force_dimensions |-> fd,
                        pre |-> [k \in 1..Len(imgs) |-> images[imgs[k]]]]
           IN  IF imgs = <<>>
               THEN \* max() of an empty list raises ValueError
                    /\ inst' = [inst EXCEPT !.widths = widths, !.heights = heights,
                                                !.applied = @ + 1]
                    /\ lastCall' = call @@ [status |-> "ValueError", ret |-> "none",
                                            retSize |-> None, draws |-> <<>>,
                                            handle |-> 0]
                    /\ UNCHANGED nextId
               ELSE LET canvas == <<max(widths), sum(heights)>>
                    IN  /\ inst' = [inst EXCEPT !.widths = widths,
                                                !.heights = heights,
                                                !.canvas_size = canvas,
                                                !.applied = @ + 1]
                        /\ lastCall' = call @@
                              [status |-> "ok", ret |-> "new", retSize |-> canvas,
                               draws |-> VerticalRects(fd, imgs, R(0)),
                               handle |-> NewCanvasHandle]
                        /\ nextId' = nextId + 1
        /\ UNCHANGED <<images, locked>>
        /\ CallFrame

----------------------------------------------------------------------------
(* Image methods (core.py)                                                 *)

\* Python's None where a Color is expected.
NoColor == "none"
\* Arguments the caller passes to pad.
PadBorders == {<<50, 70>>}
PadColors == {NoColor, "red"}
\* Arguments the caller passes to overlay_image; None is the default.  The
\* location (110, 70) lies outside both initial images.
OverlayLocations == {None, <<10, 10>>, <<110, 70>>}
OverlaySizes == {None, <<-1, -1>>, <<-1, 40>>, <<40, -1>>}
\* Arguments the caller passes to save; NoFile is the default None.
SavePaths == {NoFile, "out.tiff"}

\* A call of a method of images[i]: the fields every such call records.
MethodCall(op, i) ==
    [op |-> op, kind |-> "Image", img |-> i, pre |-> images[i]]

\* drawInRect_ of a whole image of size (w, h) into rect: the map from the
\* source's coordinates to the canvas.
DrawInRect(rect, w, h) ==
    Compose(RectMap(rect), ScaleM(RDiv(R(1), w), RDiv(R(1), h)))

\* A pad that draws the original at the origin of the new canvas.
PadBoundsAtOrigin(img, hb, vb) == MakeRect(R(0), R(0), img.w, img.h)

\* Image.pad: the rectangle the original is drawn into.
PadBounds(img, hb, vb) == MakeRect(R(hb), R(vb), img.w, img.h)

\* Image.pad: the color of the swatch.
PadColor(pad_color) == IF pad_color = NoColor THEN "white" ELSE pad_color

\* Image.pad: a swatch of the padded size is made (Color.make_swatch), the
\* image is drawn into it and the image takes over the swatch's handle.
PadApply ==
    \E i \in ImageIds, b \in PadBorders, pad_color \in PadColors :
        /\ CallGuard(i)
        /\ LET img == images[i]
               new_width == RAdd(img.w, R(b[1] * 2))
               new_height == RAdd(img.h, R(b[2] * 2))
               bounds == PadBounds(img, b[1], b[2])
               m == Compose(DrawInRect(bounds, img.w, img.h), img.content.m)
               content == [pic |-> img.content.pic, m |-> m,
                           lossy |-> \/ img.content.lossy
                                     \/ ~WithinCanvas(m, new_width, new_height)]
           IN  /\ images' = [images EXCEPT ![i] =
                     [img EXCEPT !.w = new_width, !.h = new_height,
                                 !.handle = nextId, !.content = content,
                                 !.modified = TRUE]]
               /\ nextId' = nextId + 1
               /\ lastCall' = MethodCall("pad", i) @@
                     [borders |-> b, pad_color |-> pad_color,
                      fill |-> PadColor(pad_color), dest |-> bounds,
                      status |-> "ok", ret |-> "same"]
        /\ UNCHANGED <<inst, locked>>
        /\ CallFrame

\* Image(other): a new Image that takes over the other's file and its
\* NSImage handle; modified and the recorded adjustments start afresh.
ImageFromImage(other) ==
    [Image(other.handle, other.w, other.h, other.content)
        EXCEPT !.uw = other.uw, !.uh = other.uh, !.file = other.file]

\* B = Image(A): the caller replaces one of its images by a wrapper of
\* another, so that no call has been made on the images it now holds.
CopyImage ==
    \E i \in ImageIds, j \in ImageIds :
        /\ i # j
        /\ calls < MaxCalls
        /\ \A k, l \in ImageIds : k # l => images[k].handle # images[l].handle
        /\ images' = [images EXCEPT ![j] = ImageFromImage(images[i])]
        /\ lastCall' = NoCall
        /\ prevCall' = NoCall
        /\ UNCHANGED <<inst, nextId, gens, calls, locked, disk, color>>

\* Drawing with the focus locked on the handle of images[i]: the pixels of
\* that NSImage change, for every Image that wraps it; images[i] is marked
\* modified.
DrawnInPlace(i, content) ==
    [k \in ImageIds |->
        IF k = i
        THEN [images[k] EXCEPT !.content = content, !.modified = TRUE]
        ELSE IF images[k].handle = images[i].handle
        THEN [images[k] EXCEPT !.content = content]
        ELSE images[k]]

\* An overlay_image whose (-1, -1) fills the whole background.
OverlaySizeWholeBackground(sz, x, y, bg, fg) == <<bg.w, bg.h>>

\* Image.overlay_image: the extent of the rectangle, from the size argument,
\* the location (x, y), the background bg and the overlaid image fg.
OverlaySize(sz, x, y, bg, fg) ==
    IF sz = None THEN <<fg.w, fg.h>>
    ELSE IF sz = <<-1, -1>> THEN <<RSub(bg.w, x), RSub(bg.h, y)>>
    ELSE IF sz[1] = -1 THEN <<RSub(bg.w, x), R(sz[2])>>
    ELSE IF sz[2] = -1 THEN <<R(sz[2]), RSub(bg.h, y)>>
    ELSE <<R(sz[1]), R(sz[2])>>

\* Part of the rectangle lies on the canvas of bg.
Visible(rect, bg) ==
    LET part == imageByCroppingToRect_(MakeRect(R(0), R(0), bg.w, bg.h), rect)
    IN  ~RLe(part[3], R(0)) /\ ~RLe(part[4], R(0))

\* Image.overlay_image: the overlaid image is drawn into the rectangle on
\* the background's own handle.  A rectangle of negative extent is drawn or
\* not as the backend decides.
OverlayImageApply ==
    \E i \in ImageIds, j \in ImageIds, location \in OverlayLocations,
       sz \in OverlaySizes, drawn \in BOOLEAN :
        /\ CallGuard(i) /\ Exact(images[j]) /\ ~IsEmpty(images[j])
        /\ LET bg == images[i]
               fg == images[j]
               loc == IF location = None THEN <<0, 0>> ELSE location
               x == R(loc[1])
               y == R(loc[2])
               extent == OverlaySize(sz, x, y, bg, fg)
               bounds == MakeRect(x, y, extent[1], extent[2])
               positive == ~RLe(extent[1], R(0)) /\ ~RLe(extent[2], R(0))
           IN  /\ (positive => drawn = Visible(bounds, bg))
               /\ IF drawn
                  THEN /\ images' = DrawnInPlace(i, FullContent(nextId, bg.w, bg.h))
                       /\ nextId' = nextId + 1
                  ELSE /\ images' = [images EXCEPT ![i] =
                             [bg EXCEPT !.modified = TRUE]]
                       /\ UNCHANGED nextId
               /\ lastCall' = MethodCall("overlay", i) @@
                     [fg |-> j, preFg |-> fg, location |-> location,
                      size |-> sz, dest |-> bounds, drawn |-> drawn,
                      status |-> "ok", ret |-> "same"]
        /\ UNCHANGED <<inst, locked>>
        /\ CallFrame

\* Arguments the caller passes to overlay_text; None is the default.
TextLocations == {None, <<10, 20>>}
TextColors == {NoColor, "red"}

\* Image.overlay_text: the rectangle the text is drawn into.
TextRect(x, y, img) == MakeRect(x, R(0), RSub(img.w, x), RSub(img.h, y))

\* Image.overlay_text: the text is drawn into the rectangle on the image's
\* own handle.
OverlayTextApply ==
    \E i \in ImageIds, location \in TextLocations, font_color \in TextColors :
        /\ CallGuard(i)
        /\ LET img == images[i]
               loc == IF location = None THEN <<5, 5>> ELSE location
               drawn_color == IF font_color = NoColor THEN "black" ELSE font_color
               textRect == TextRect(R(loc[1]), R(loc[2]), img)
           IN  /\ images' = DrawnInPlace(i, FullContent(nextId, img.w, img.h))
               /\ nextId' = nextId + 1
               /\ lastCall' = MethodCall("text", i) @@
                     [location |-> location, font_color |-> font_color,
                      color |-> drawn_color, dest |-> textRect,
                      status |-> "ok", ret |-> "same"]
        /\ UNCHANGED <<inst, locked>>
        /\ CallFrame

\* Image.save: with no path given and a source file, the path is read as
\* self.file.path, but self.file is a str, which has no attribute path.
\* With no path and no source file, None goes to createFileAtPath_, which
\* rejects it by an exception of the backend or by returning False.
\* Otherwise the TIFF representation is written to the path.
SaveApply ==
    \E i \in ImageIds, file_path \in SavePaths, rejects \in BOOLEAN :
        /\ CallGuard(i)
        /\ LET img == images[i]
               call == MethodCall("save", i) @@
                          [file_path |-> file_path, ret |-> "none"]
           IN  IF file_path = NoFile /\ img.file # NoFile
               THEN /\ rejects
                    /\ lastCall' = call @@ [status |-> "AttributeError",
                                            wrote |-> NoFile]
                    /\ UNCHANGED <<disk, color>>
               ELSE IF file_path = NoFile
               THEN /\ lastCall' = call @@
                          [status |-> IF rejects THEN "BackendError" ELSE "ok",
                           wrote |-> NoFile]
                    /\ UNCHANGED <<disk, color>>
               ELSE /\ ~rejects
                    /\ disk' = [disk EXCEPT ![file_path] = data(img)]
                    /\ UNCHANGED color
                    /\ lastCall' = call @@ [status |-> "ok", wrote |-> file_path]
        /\ UNCHANGED <<images, inst, nextId, locked>>
        /\ CallHistory

\* Values the caller assigns to an adjustment property: a number, a Color
\* for white_point, or None.
AdjustValues(name) ==
    CASE name = "white_point" -> {"red", Unset}
      [] name \in {"tint", "temperature"} -> {"1", Unset}
      [] OTHER -> {"1"}

\* Image.__update_image: the backend result is cropped to (0, 0, 2w, 2h)
\* and becomes the image's new handle.
UpdateImage(img, handle) ==
    LET cropped == imageByCroppingToRect_(
                       BackendExtent(img.w, img.h, 0),
                       MakeRect(R(0), R(0), RMul(img.w, R(2)), RMul(img.h, R(2))))
    IN  [img EXCEPT !.w = cropped[3], !.h = cropped[4], !.handle = handle,
                    !.content = FullContent(handle, cropped[3], cropped[4]),
                    !.modified = TRUE]

\* The setters of gamma, vibrance, tint, temperature, white_point, highlight
\* and shadow.  tint and temperature build a CIVector of the value first,
\* which raises TypeError for None; the others record the value first.
\* white_point then reads white_point._nscolor, which raises AttributeError
\* for None.
SetAdjustment ==
    \E i \in ImageIds, name \in Adjustments :
        \E value \in AdjustValues(name) :
            /\ CallGuard(i)
            /\ LET img == images[i]
                   call == MethodCall("set", i) @@
                              [name |-> name, value |-> value, ret |-> "none"]
                   recorded == [img EXCEPT !.adjust[name] = value]
               IN  IF value = Unset /\ name \in {"tint", "temperature"}
                   THEN /\ lastCall' = call @@ [status |-> "TypeError"]
                        /\ UNCHANGED <<images, nextId>>
                   ELSE IF value = Unset
                   THEN /\ lastCall' = call @@ [status |-> "AttributeError"]
                        /\ images' = [images EXCEPT ![i] = recorded]
                        /\ UNCHANGED nextId
                   ELSE /\ lastCall' = call @@ [status |-> "ok"]
                        /\ images' = [images EXCEPT ![i] =
                                          UpdateImage(recorded, nextId)]
                        /\ nextId' = nextId + 1
            /\ UNCHANGED <<inst, locked>>
            /\ CallFrame

----------------------------------------------------------------------------
(* Generators (generators.py)                                              *)

GeneratorClasses ==
    {"CheckerboardGenerator", "QRCodeGenerator", "RandomGenerator",
     "StripesGenerator", "TextImageGenerator", "RoundedRectangleGenerator"}
\* The classes whose generate takes the output size.
SizedGenerators == {"CheckerboardGenerator", "RandomGenerator", "StripesGenerator"}
\* Output sizes the caller asks for, and the sizes a RoundedRectangle is
\* configured with.
GenerateSizes == {<<30, 40>>, <<64, 64>>}
\* The extent of the backend's QR code and text image.
QRExtent == <<27, 27>>
TextExtent == <<40, 15>>

\* The backend's output extent: None for a pattern that covers the plane.
GeneratorExtent(g) ==
    CASE g.kind = "QRCodeGenerator" ->
            MakeRect(R(0), R(0), R(QRExtent[1]), R(QRExtent[2]))
      [] g.kind = "TextImageGenerator" ->
            MakeRect(R(0), R(0), R(TextExtent[1]), R(TextExtent[2]))
      [] g.kind = "RoundedRectangleGenerator" ->
            MakeRect(R(0), R(0), R(g.configured[1]), R(g.configured[2]))
      [] OTHER -> None

\* The constructors: the subclass stores its parameters, then
\* ImageGenerator.__init__ looks the backend filter up and sets _size to None.
NewGenerator ==
    \E cls \in GeneratorClasses, available \in BOOLEAN,
       dims \in GenerateSizes \cup {None} :
        /\ CanConstruct
        /\ (dims # None) = (cls = "RoundedRectangleGenerator")
        /\ IF available
           THEN /\ gens' = gens + 1
                /\ inst' = [family |-> "generator", kind |-> cls,
                            gen |-> gens + 1, applied |-> 0,
                            configured |-> dims, size_ |-> None]
           ELSE /\ inst' = UnavailableInst
                /\ UNCHANGED gens
        /\ UNCHANGED <<images, lastCall, prevCall, nextId, calls, locked, disk, color>>

\* The _size a subclass's generate sets before ImageGenerator.generate:
\* the size asked for, (100, 100) for a QR code, and nothing for a text
\* image or a rounded rectangle.
GenerateSize(g, requested) ==
    CASE g.kind \in SizedGenerators -> requested
      [] g.kind = "QRCodeGenerator" -> <<100, 100>>
      [] OTHER -> g.size_

\* generate of a subclass followed by ImageGenerator.generate: the backend
\* output is cropped to (0, 0, *_size) when _size is set and wrapped in a
\* new Image.
Generate ==
    \E requested \in GenerateSizes \cup {None} :
        /\ inst.family = "generator"
        /\ calls < MaxCalls
        /\ (requested # None) = (inst.kind \in SizedGenerators)
        /\ LET size_ == GenerateSize(inst, requested)
               extent == GeneratorExtent(inst)
               rect == MakeRect(R(0), R(0), R(size_[1]), R(size_[2]))
               out == IF size_ = None THEN extent
                      ELSE IF extent = None THEN rect
                      ELSE imageByCroppingToRect_(extent, rect)
           IN  /\ inst' = [inst EXCEPT !.size_ = size_, !.applied = @ + 1]
               /\ lastCall' = [op |-> "generate", kind |-> inst.kind,
                               gen |-> inst.gen, fresh |-> (inst.applied = 0),
                               requested |-> requested,
                               configured |-> inst.configured,
                               cropped |-> (size_ # None),
                               retSize |-> <<out[3], out[4]>>,
                               status |-> "ok", ret |-> "new",
                               handle |-> nextId]
               /\ nextId' = nextId + 1
        /\ UNCHANGED <<images, locked>>
        /\ CallFrame

----------------------------------------------------------------------------
(* Color                                                                   *)

\* int(x) of a non-negative number: the fraction is dropped.
int(x) == x[1] \div x[2]

\* The digits hex() writes.
LowerDigits ==
    <<"0", "1", "2", "3", "4", "5", "6", "7", "8", "9",
      "a", "b", "c", "d", "e", "f">>

\* The digits of n in base 16, most significant first, no leading zero.
RECURSIVE HexDigitsOf(_)
HexDigitsOf(n) ==
    IF n < 16 THEN <<LowerDigits[n + 1]>>
    ELSE HexDigitsOf(n \div 16) \o <<LowerDigits[(n % 16) + 1]>>

\* hex(n) of a non-negative integer: "0x" and the digits.
hex(n) == <<"0", "x">> \o HexDigitsOf(n)

\* s[2:]
DropTwo(s) == SubSeq(s, 3, Len(s))

\* str.upper() of one character.
UpperChar(c) ==
    CASE c = "a" -> "A" [] c = "b" -> "B" [] c = "c" -> "C"
      [] c = "d" -> "D" [] c = "e" -> "E" [] c = "f" -> "F"
      [] c = "x" -> "X" [] OTHER -> c

\* str.upper()
upper(s) == [k \in 1..Len(s) |-> UpperChar(s[k])]

\* Color.hex_value
hex_value(c) ==
    upper(DropTwo(hex(int(RMul(c.red_value, R(255)))))
          \o DropTwo(hex(int(RMul(c.green_value, R(255)))))
          \o DropTwo(hex(int(RMul(c.blue_value, R(255))))))

\* The caller constructs a Color from three channel values.
ConstructColor ==
    \E red \in Channels, green \in Channels, blue \in Channels :
        /\ color' = NewColor(red, green, blue)
        /\ UNCHANGED <<images, inst, lastCall, prevCall, nextId, gens, calls,
                       locked, disk>>

\* The caller reads hex_value of the Color.
ReadHexValue ==
    /\ color' = [color EXCEPT !.hex = hex_value(color)]
    /\ UNCHANGED <<images, inst, lastCall, prevCall, nextId, gens, calls,
                   locked, disk>>

----------------------------------------------------------------------------

\* The operations of each family of operation objects.
NextFilters ==
    \/ ConstructFilter
    \/ NewEmptyImage
    \/ PlainFilterApply
    \/ CenterFilterApply
    \/ DepthOfFieldApply
    \/ AutoEnhanceApply

NextTransforms ==
    \/ NewCrop
    \/ NewFlip
    \/ NewRotate
    \/ NewScale
    \/ NewResize
    \/ CropApply
    \/ FlipApply
    \/ RotateApply
    \/ ScaleApply
    \/ ResizeApply

NextCompositions ==
    \/ NewHorizontalStitch
    \/ HorizontalCompose
    \/ NewVerticalStitch
    \/ VerticalCompose

NextGenerators ==
    \/ NewGenerator
    \/ Generate

NextCore ==
    \/ PadApply
    \/ OverlayImageApply
    \/ SaveApply

NextImage ==
    \/ PadApply
    \/ OverlayImageApply
    \/ OverlayTextApply
    \/ SetAdjustment
    \/ CopyImage

NextColor ==
    \/ ConstructColor
    \/ ReadHexValue

Next ==
    \/ NextColor
    \/ NextFilters
    \/ NextTransforms
    \/ NextCompositions
    \/ NextGenerators
    \/ NextCore
    \/ NextImage

\* A caller that uses all operations.
Spec == Init /\ [][Next]_vars

\* Callers that use the operations of one family.
SpecFilters == Init /\ [][NextFilters]_vars
SpecTransforms == Init /\ [][NextTransforms]_vars
SpecCompositions == Init /\ [][NextCompositions]_vars

SpecGenerators == Init /\ [][NextGenerators]_vars

\* A caller that pads, overlays and saves images.
SpecCore == Init /\ [][NextCore]_vars

\* A caller that uses the mutating methods of Image on images, some of them
\* constructed from another with Image(other).
SpecImage == Init /\ [][NextImage]_vars

\* A caller that uses Color objects.
SpecColor == Init /\ [][NextColor]_vars

----------------------------------------------------------------------------
(* Properties                                                              *)

IsCall(op, kind) == lastCall.op = op /\ lastCall.kind = kind
Completed == lastCall.status = "ok"
\* The image the last call was applied to, as it is now and as it was before.
Target == images[lastCall.img]
Before == lastCall.pre
FullBounds(img) == MakeRect(R(0), R(0), img.w, img.h)

\* C1: every filter's apply_to (on an image that has pixels) returns the
\* very Image object it was given, and that image has modified = true after
\* the call.
C1_ApplyReturnsSameImageModified ==
    (lastCall.op = "filter" /\ Completed /\ ~IsEmpty(Before)) =>
        /\ lastCall.ret = "same"
        /\ Target.modified
        /\ Target.handle # Before.handle

\* C2: each apply_to of a filter instance (no forced bounds exist) crops the
\* backend result to (0, 0, w, h) of the image of that call, so the size of
\* the image is the same after the call as before it.  Stated for the
\* classes whose apply_to goes straight to Filter.apply_to.
C2_CropsToBoundsOfCallImage ==
    (IsCall("filter", "plain") /\ Completed /\ ~IsEmpty(Before)) =>
        /\ lastCall.crop = FullBounds(Before)
        /\ size(Target) = size(Before)

\* C3: a center-parameterized filter constructed with center = None passes
\* the center (w/2, h/2) of the image of the call to the backend, on every
\* call.
C3_CenterOfCallImage ==
    (IsCall("filter", "center") /\ lastCall.initCenter = NoCenter
        /\ ~IsEmpty(Before)) =>
        /\ Completed
        /\ lastCall.center = CIVector(RDiv(Before.w, R(2)), RDiv(Before.h, R(2)))

\* The canvas size a newly constructed Flip or Scale produces on an image.
FreshOutSize(kind, params, img) ==
    IF kind = "Scale"
    THEN <<RMul(img.w, params.scale_factor_x), RMul(img.h, params.scale_factor_y)>>
    ELSE size(img)

\* C4: every apply_to of a Flip or Scale instance produces the output size
\* and the destination rectangle a newly constructed instance would: the
\* source is drawn into (0, 0, w, h) of the image of that call.
C4_FlipScaleAsFreshInstance ==
    (lastCall.op = "transform" /\ lastCall.kind \in {"Flip", "Scale"} /\ Completed) =>
        /\ lastCall.dest = FullBounds(Before)
        /\ lastCall.outSize = FreshOutSize(lastCall.kind, lastCall.params, Before)
        /\ size(Target) = lastCall.outSize

\* C5: Resize(w) with height omitted yields size (w, H * w / W) on every
\* call, (W, H) being the size of the image before that call.
C5_ResizeKeepsAspect ==
    (IsCall("transform", "Resize") /\ lastCall.params.initHeight = None) =>
        /\ Completed
        /\ size(Target) = <<lastCall.params.width,
                            RDiv(RMul(Before.h, lastCall.params.width), Before.w)>>

\* C6: Crop(size, corner).apply_to completes and leaves the image with size
\* `size`, showing unscaled the region of the original at `corner`.
C6_CropYieldsRegion ==
    IsCall("transform", "Crop") =>
        LET p == lastCall.params
        IN  /\ Completed
            /\ size(Target) = <<R(p.size[1]), R(p.size[2])>>
            /\ Target.content.m =
                   Compose(TranslateM(R(-p.corner[1]), R(-p.corner[2])),
                           Before.content.m)

\* C7: Rotate(0).apply_to yields a canvas of the size of the image with the
\* same content: the destination rectangle is (0, 0, w, h) and the affine
\* transform is the identity.
C7_RotateZeroIsIdentity ==
    (IsCall("transform", "Rotate") /\ lastCall.params.degrees = 0) =>
        /\ Completed
        /\ lastCall.ret = "same"
        /\ size(Target) = size(Before) /\ Exact(Target)
        /\ Target.content = Before.content
        /\ lastCall.dest = FullBounds(Before)
        /\ lastCall.xform = Identity

\* Rotate(0) has been applied to an image that an earlier transform changed.
C7_Witness ==
    /\ IsCall("transform", "Rotate") /\ lastCall.params.degrees = 0
    /\ Completed
    /\ Before.modified
    /\ size(Before) # <<R(100), R(50)>>
    /\ Target.handle # Before.handle

\* The last two calls flipped the same image in the same direction, the
\* first with a newly constructed Flip, the second with that instance or
\* with another newly constructed one.
FlippedTwice ==
    /\ IsCall("transform", "Flip")
    /\ prevCall.op = "transform" /\ prevCall.kind = "Flip"
    /\ prevCall.img = lastCall.img
    /\ prevCall.params.direction = lastCall.params.direction
    /\ prevCall.fresh
    /\ (lastCall.gen = prevCall.gen \/ lastCall.fresh)

\* C8: Flip("horizontal") applied twice to an image, with one instance or
\* with two, gives back an image of the original size with the original
\* content; likewise Flip("vertical").
C8_FlipTwiceIsIdentity ==
    FlippedTwice =>
        /\ Completed /\ prevCall.status = "ok"
        /\ size(Target) = size(prevCall.pre)
        /\ Target.content = prevCall.pre.content
        /\ Before.content # prevCall.pre.content

\* One Flip instance has flipped an image twice.
C8_Witness ==
    /\ FlippedTwice
    /\ lastCall.gen = prevCall.gen
    /\ lastCall.params.direction = "horizontal"
    /\ Target.modified

\* C9: Rotate(d) yields a canvas of size (w|cos d| + h|sin d|, h|cos d| +
\* w|sin d|) with the source centered in it; the size is (w, h) when d is a
\* multiple of 180 and (h, w) when d is an odd multiple of 90.
C9_RotateCanvasSize ==
    (IsCall("transform", "Rotate") /\ Completed) =>
        LET d == lastCall.params.degrees
        IN  /\ lastCall.dest =
                  MakeRect(RDiv(RSub(Target.w, Before.w), R(2)),
                           RDiv(RSub(Target.h, Before.h), R(2)),
                           Before.w, Before.h)
            /\ (d % 180 = 0 => size(Target) = size(Before) /\ Exact(Target))
            /\ (d % 180 = 90 => size(Target) = <<Before.h, Before.w>> /\ Exact(Target))

\* The sum of the widths of the first k images of a compose call.
RECURSIVE WidthBefore(_, _)
WidthBefore(pre, k) ==
    IF k = 0 THEN R(0) ELSE RAdd(WidthBefore(pre, k - 1), pre[k].w)

RECURSIVE HeightBefore(_, _)
HeightBefore(pre, k) ==
    IF k = 0 THEN R(0) ELSE RAdd(HeightBefore(pre, k - 1), pre[k].h)

C13_ComposeLeavesInputs ==
    lastCall.op = "compose" =>
        /\ \A k \in 1..Len(lastCall.args) :
              images[lastCall.args[k]] = lastCall.pre[k]
        /\ (Completed =>
              /\ lastCall.ret = "new"
              /\ \A i \in ImageIds : images[i].handle # lastCall.handle)

\* A VerticalStitch composed an image loaded from a file with another one.
C13_Witness ==
    /\ IsCall("compose", "VerticalStitch")
    /\ Completed
    /\ Len(lastCall.args) = 2
    /\ lastCall.args[1] # lastCall.args[2]
    /\ images[lastCall.args[1]].file # NoFile
    /\ lastCall.handle > NumImages

\* C14: pad(h_border, v_border, color) on an image of size (w, h) leaves
\* the same Image with size (w + 2*h_border, h + 2*v_border), filled with
\* the color (white when none is given), the original content drawn unscaled
\* in (h_border, v_border, w, h), and modified = true.
C14_PadGrowsCanvas ==
    IsCall("pad", "Image") =>
        LET hb == R(lastCall.borders[1])
            vb == R(lastCall.borders[2])
        IN  /\ Completed /\ lastCall.ret = "same"
            /\ size(Target) = <<RAdd(Before.w, RMul(R(2), hb)),
                                RAdd(Before.h, RMul(R(2), vb))>>
            /\ lastCall.fill = IF lastCall.pad_color = NoColor
                               THEN "white" ELSE lastCall.pad_color
            /\ lastCall.dest = MakeRect(hb, vb, Before.w, Before.h)
            /\ Target.content.pic = Before.content.pic
            /\ Target.content.m = Compose(TranslateM(hb, vb), Before.content.m)
            /\ Target.content.lossy = Before.content.lossy
            /\ Target.modified
            /\ Target.file = Before.file

\* An image of size (100, 60) was padded by (50, 70) without a color and is
\* now of size (200, 200), the original in (50, 70, 100, 60).
C14_Witness ==
    /\ IsCall("pad", "Image") /\ Completed
    /\ lastCall.pad_color = NoColor /\ lastCall.fill = "white"
    /\ size(Before) = <<R(100), R(60)>>
    /\ size(Target) = <<R(200), R(200)>>
    /\ lastCall.dest = MakeRect(R(50), R(70), R(100), R(60))
    /\ ~Before.modified /\ Target.modified

\* The location an overlay_image call used.
OverlayAt ==
    IF lastCall.location = None THEN <<R(0), R(0)>>
    ELSE <<R(lastCall.location[1]), R(lastCall.location[2])>>

C16_OverlayFillsOneDimension ==
    (IsCall("overlay", "Image") /\ lastCall.size # None
        /\ lastCall.size # <<-1, -1>>) =>
        /\ Completed
        /\ (lastCall.size[1] = -1 =>
              /\ lastCall.dest[3] = RSub(Before.w, OverlayAt[1])
              /\ lastCall.dest[4] = R(lastCall.size[2]))
        /\ (lastCall.size[2] = -1 =>
              /\ lastCall.dest[3] = R(lastCall.size[1])
              /\ lastCall.dest[4] = RSub(Before.h, OverlayAt[2]))

\* The location of an overlay_image call lies outside the background.
OverlayOutside ==
    ~(/\ RLe(R(0), OverlayAt[1]) /\ RLe(OverlayAt[1], Before.w)
      /\ RLe(R(0), OverlayAt[2]) /\ RLe(OverlayAt[2], Before.h))

\* C17: overlay_image at a location outside the background returns without
\* raising and changes nothing: the content, the size and the modified
\* flag of the background are as before.
C17_OverlayOutsideIsNoOp ==
    (IsCall("overlay", "Image") /\ OverlayOutside) =>
        /\ Completed
        /\ Target.content = Before.content
        /\ size(Target) = size(Before)
        /\ Target.modified = Before.modified

\* C18: save() without a path on an image that has a source file completes
\* and leaves the image's current data at the source path; save(path)
\* leaves it at the given path.
C18_SaveWritesToPathOrSource ==
    (IsCall("save", "Image")
        /\ (lastCall.file_path # NoFile \/ Before.file # NoFile)) =>
        LET dest == IF lastCall.file_path # NoFile
                    THEN lastCall.file_path ELSE Before.file
        IN  /\ Completed
            /\ lastCall.wrote = dest
            /\ disk[dest] = data(Target)

\* C19: save() without a path on an image that has no source file fails
\* with NoDestinationError and writes nothing.
C19_SaveWithoutDestinationFails ==
    (IsCall("save", "Image")
        /\ lastCall.file_path = NoFile /\ Before.file = NoFile) =>
        /\ lastCall.status = "NoDestinationError"
        /\ lastCall.wrote = NoFile

\* C20: apply_to of a filter on an image of zero width or zero height fails
\* with InvalidImageError and leaves the image as it was.
C20_FilterRejectsEmptyImage ==
    (lastCall.op = "filter" /\ IsEmpty(Before)) =>
        /\ lastCall.status = "InvalidImageError"
        /\ Target = Before

\* C21: when the backend has no filter of the requested name, the
\* construction of the filter fails with UnsupportedFilterError.
C21_UnavailableFilterError ==
    (inst.family = "failed" /\ inst.unavailable) =>
        inst.error = "UnsupportedFilterError"

\* The last call was one of the operations that change an image.
MutatingCall ==
    lastCall.op \in {"filter", "transform", "pad", "overlay", "text", "set"}

\* C22: a mutating operation that fails leaves the image as it was before
\* the call: handle, size, content, modified flag and recorded adjustment
\* values.
C22_FailureLeavesImage ==
    (MutatingCall /\ ~Completed) => Target = Before

\* C23: every generate returns a new Image that was cropped to an explicit
\* size: the size asked for from Checkerboard, Stripes and Random, the
\* configured size of a RoundedRectangle; no path wraps the backend output
\* uncropped.
C23_GenerateCropsToSize ==
    lastCall.op = "generate" =>
        /\ Completed /\ lastCall.ret = "new"
        /\ lastCall.cropped
        /\ (lastCall.kind \in SizedGenerators =>
              lastCall.retSize = <<R(lastCall.requested[1]), R(lastCall.requested[2])>>)
        /\ (lastCall.kind = "RoundedRectangleGenerator" =>
              lastCall.retSize = <<R(lastCall.configured[1]), R(lastCall.configured[2])>>)

\* C24: overlay_text draws the text in a rectangle whose bottom-left corner
\* is the location given, (5, 5) when none is given, in black when no color
\* is given, and leaves the image modified and of the same size.
C24_TextAtLocation ==
    IsCall("text", "Image") =>
        LET loc == IF lastCall.location = None THEN <<5, 5>>
                   ELSE lastCall.location
        IN  /\ Completed
            /\ lastCall.dest[1] = R(loc[1])
            /\ lastCall.dest[2] = R(loc[2])
            /\ lastCall.color = IF lastCall.font_color = NoColor
                                THEN "black" ELSE lastCall.font_color
            /\ Target.modified
            /\ size(Target) = size(Before)

\* The two digits, upper case, of a value below 256.
HexPair(n) ==
    <<UpperChar(LowerDigits[(n \div 16) + 1]), UpperChar(LowerDigits[(n % 16) + 1])>>

\* C25: hex_value is six upper-case hexadecimal digits, two per channel in
\* the order red, green, blue, each pair int(channel * 255) with a leading
\* zero below 16.
C25_HexValueSixDigits ==
    color.hex # NotRead =>
        /\ Len(color.hex) = 6
        /\ color.hex = HexPair(int(RMul(color.red_value, R(255))))
                        \o HexPair(int(RMul(color.green_value, R(255))))
                        \o HexPair(int(RMul(color.blue_value, R(255))))

\* C26: every lockFocus is followed by its unlockFocus on every exit path:
\* once an operation has returned or raised, no canvas holds the drawing
\* focus.
C26_FocusReleased == locked = 0

\* C27: every mutating operation that completes has replaced the image's
\* handle by a new one, instead of drawing into the existing handle, and has
\* set modified.
C27_MutationReplacesHandle ==
    (MutatingCall /\ Completed) =>
        /\ Target.handle # Before.handle
        /\ Target.modified

\* C28: a mutating operation on one image leaves the content and the size of
\* every other image unchanged, also of an image constructed from it (or it
\* from that image) with Image(other).
C28_MutationLeavesOtherImages ==
    [][(lastCall'.op \in {"pad", "overlay", "text", "set"}) =>
          \A k \in ImageIds \ {lastCall'.img} :
              /\ images'[k].content = images[k].content
              /\ size(images'[k]) = size(images[k])]_vars

\* C29: apply_to leaves the configuration of the operation object as it was
\* constructed: after any number of calls a filter's center (focal_region
\* for DepthOfField) still holds the constructor argument.
C29_ApplyKeepsConfiguration ==
    (inst.family = "filter" /\ inst.applied > 0) =>
        inst.center = inst.initCenter

\* C30: every filter class can be constructed and invokes the backend
\* filter its class names (DiscBlur the disc blur, ZoomBlur the zoom blur,
\* Outline an effect other than LineOverlay's), and forwards every
\* constructor parameter to it.
C30_FilterUsesNamedBackend ==
    /\ ~(inst.family = "failed" /\ inst.error = "NameError")
    /\ inst.family = "filter" =>
          /\ (inst.cls = "DiscBlur" => inst.backend = "CIDiscBlur")
          /\ (inst.cls = "ZoomBlur" => inst.backend = "CIZoomBlur")
          /\ (inst.cls = "Outline" => inst.backend # BackendName("LineOverlay"))
          /\ ForwardedParams(inst.cls) = ConstructorParams(inst.cls)

====
